---- MODULE Spec2Model ----
(***************************************************************************)
(* MCP tools server: the session store, the single POST /mcp endpoint and  *)
(* the SSE stream that frames its replies.                                 *)
(*   src/mcp_server/server.py               endpoint, Accept check, SSE    *)
(*   src/mcp_server/services/mcp_server.py  MCPSession, MCPServer          *)
(*   src/mcp_server/tools/users/*.py        the tools' execute             *)
(*   src/agent/clients/custom_mcp_client.py the client's handshake         *)
(* A Python None of a structured value is the record None, a None of a     *)
(* string (an absent header, a dict.get miss) is the string NoValue.       *)
(***************************************************************************)
EXTENDS Integers, Sequences, FiniteSets, TLC

VARIABLES sessions, tools, now, tasks, client

vars == <<sessions, tools, now, tasks, client>>

-----------------------------------------------------------------------------
(* Bounds of the model.                                                    *)

\* number of session ids uuid4 can still hand out
MaxSessions == 2
\* the event loop's clock runs from 0 to MaxTime
MaxTime == 1
\* connections the model keeps (Spec serves one POST at a time, on the first)
MaxTasks == 2
\* distinct JSON-RPC request ids the clients use
MaxReqIds == 1
\* longest list of messages handed to _create_sse_stream on its own
MaxMessages == 3
\* calls of connect() on the one client the model follows
MaxConnects == 2

-----------------------------------------------------------------------------
(* Values.                                                                 *)

None == [none |-> TRUE]
NoValue == "<None>"
EmptyDict == [k \in {} |-> NoValue]

IdPool == <<"5f0c1a", "9b2e7d", "c44a10", "e81f36">>
SessionIds == {IdPool[i] : i \in 1..MaxSessions}

ReqIdPool == <<"req-1", "req-2", "req-3">>
ReqIds == {ReqIdPool[i] : i \in 1..MaxReqIds}

Tasks == 1..MaxTasks

MCP_SESSION_ID_HEADER == "Mcp-Session-Id"

\* MCPServer.__init__: self.protocol_version
protocol_version == "2024-11-05"

\* MCPServer.__init__: self.server_info
server_info == [name |-> "custom-ums-mcp-server", version |-> "1.0.0"]

\* a formatted string: the constant part and the interpolated part
Str(fmt, arg) == [fmt |-> fmt, arg |-> arg]

\* Python truthiness of an Optional[str]
Truthy(s) == s # NoValue /\ s # ""

\* request.params: `given` is false for a null or missing params member
Params(d) == [given |-> TRUE, d |-> d]
NoParams == [given |-> FALSE, d |-> EmptyDict]

\* Python truthiness of request.params (None and {} are falsy)
ParamsTruthy(p) == p.given /\ DOMAIN p.d # {}

\* request.params.get(key)
ParamGet(p, key) == IF key \in DOMAIN p.d THEN p.d[key] ELSE NoValue

\* ErrorResponse(code=..., message=...)
ErrorResponse(code, message) == [code |-> code, message |-> message]

\* MCPResponse(id=..., result=..., error=...)
MCPResponse(id, result, error) == [id |-> id, result |-> result, error |-> error]

-----------------------------------------------------------------------------
(* Content negotiation.                                                    *)

\* t.strip().lower() on the media types the model sends
StripLower(t) ==
    CASE t = " Application/JSON" -> "application/json"
      [] t = " text/event-stream " -> "text/event-stream"
      [] t = " text/event-stream" -> "text/event-stream"
      [] OTHER -> t

\* marker in t, for a stripped and lowercased t
Contains(t, marker) ==
    \/ t = marker
    \/ t = "text/event-stream;q=0.9" /\ marker = "text/event-stream"
    \/ t = "application/json; charset=utf-8" /\ marker = "application/json"

\* an Accept header: absent, or the list accept_header.split(",") yields
\* (the empty header is the empty list)
AcceptHeader(parts) == [given |-> TRUE, parts |-> parts]
NoAccept == [given |-> FALSE, parts |-> <<>>]

\* variant: `return has_json or has_sse`
_validate_accept_headerEither(accept_header) ==
    IF ~accept_header.given \/ accept_header.parts = <<>>
    THEN FALSE
    ELSE LET accept_types == [i \in DOMAIN accept_header.parts |->
                                 StripLower(accept_header.parts[i])]
             has_json == \E i \in DOMAIN accept_types :
                             Contains(accept_types[i], "application/json")
             has_sse == \E i \in DOMAIN accept_types :
                             Contains(accept_types[i], "text/event-stream")
         IN  has_json \/ has_sse

_validate_accept_header(accept_header) ==
    IF ~accept_header.given \/ accept_header.parts = <<>>
    THEN FALSE
    ELSE LET accept_types == [i \in DOMAIN accept_header.parts |->
                                 StripLower(accept_header.parts[i])]
             has_json == \E i \in DOMAIN accept_types :
                             Contains(accept_types[i], "application/json")
             has_sse == \E i \in DOMAIN accept_types :
                             Contains(accept_types[i], "text/event-stream")
         IN  has_json /\ has_sse

-----------------------------------------------------------------------------
(* Session store.                                                          *)

\* MCPSession.__init__
MCPSession(session_id, time) ==
    [session_id |-> session_id,
     ready_for_operation |-> FALSE,
     created_at |-> time,
     last_activity |-> time]

\* MCPServer.get_session: the session found (None when absent)
get_session(store, session_id) ==
    IF session_id \in DOMAIN store THEN store[session_id] ELSE None

\* variant: self.sessions.setdefault(session_id, MCPSession(session_id))
TouchSessionCreating(store, session_id, time) ==
    [s \in DOMAIN store \cup {session_id} |->
        IF s \in DOMAIN store
        THEN IF s = session_id
             THEN [store[s] EXCEPT !.last_activity = time]
             ELSE store[s]
        ELSE MCPSession(session_id, time)]

\* variant: the lookup stamps created_at as well
TouchSessionRenewing(store, session_id, time) ==
    IF session_id \in DOMAIN store
    THEN [store EXCEPT ![session_id].last_activity = time,
                       ![session_id].created_at = time]
    ELSE store

\* variant: the lookup stamps every stored session
TouchSessionEvery(store, session_id, time) ==
    IF session_id \in DOMAIN store
    THEN [s \in DOMAIN store |-> [store[s] EXCEPT !.last_activity = time]]
    ELSE store

\* MCPServer.get_session: the store after the lookup
TouchSession(store, session_id, time) ==
    IF session_id \in DOMAIN store
    THEN [store EXCEPT ![session_id].last_activity = time]
    ELSE store

\* variant: session.ready_for_operation = not session.ready_for_operation
MarkReadyToggle(store, session_id) ==
    [store EXCEPT ![session_id].ready_for_operation = ~@]

\* variant: the flag is set on every stored session
MarkReadyEvery(store, session_id) ==
    [s \in DOMAIN store |-> [store[s] EXCEPT !.ready_for_operation = TRUE]]

\* session.ready_for_operation = True, on the session the lookup returned
MarkReady(store, session_id) ==
    [store EXCEPT ![session_id].ready_for_operation = TRUE]

\* variant: self.sessions = {session_id: session}
StoreSessionAlone(store, session) ==
    [s \in {session.session_id} |-> session]

\* the store after self.sessions[session_id] = session
StoreSession(store, session) ==
    [s \in DOMAIN store \cup {session.session_id} |->
        IF s = session.session_id THEN session ELSE store[s]]

\* variant: session ids that may repeat
FreshIdsRepeating(store) == SessionIds

\* uuid.uuid4(): an id no stored session has
FreshIds(store) == SessionIds \ DOMAIN store

-----------------------------------------------------------------------------
(* Tool registry.                                                          *)

\* the names of tools_list, in the order of registration; the update tool's
\* class is imported from a file that is not part of the sources
tools_list == <<"get_user_by_id", "search_users", "add_user", "update_user",
                "delete_users">>

RECURSIVE RegisterFrom(_, _, _)
RegisterFrom(list, i, reg) ==
    IF i > Len(list) THEN reg
    ELSE RegisterFrom(list, i + 1,
            IF \E j \in DOMAIN reg : reg[j] = list[i]
            THEN reg ELSE Append(reg, list[i]))

\* MCPServer._register_tools: the keys of self.tools in insertion order
_register_tools == RegisterFrom(tools_list, 1, <<>>)

ToolNames(reg) == {reg[i] : i \in DOMAIN reg}

-----------------------------------------------------------------------------
(* Tools (src/mcp_server/tools/users).  The arguments of a call are        *)
(* "empty" ({}), "good" (the fields the tool needs, well typed) or "bad"   *)
(* (a non-empty map without them).  A text is Str(prefix, detail).         *)

\* request.params.get("arguments", {})
ArgumentsOf(p) ==
    IF "arguments" \in DOMAIN p.d THEN p.d["arguments"] ELSE "empty"

\* the statements of execute that precede the user-service call succeed:
\* arguments["id"], int(...), UserCreate.model_validate, search_users(**arguments)
ArgumentsAccepted(tool, arguments) ==
    \/ arguments = "good"
    \/ tool = "search_users" /\ arguments = "empty"

\* the text execute's except branch puts before str(e)
ErrorPrefix(tool) ==
    CASE tool = "add_user" -> "Error while creating a new user: "
      [] tool = "delete_users" -> "Error while deleting user by id: "
      [] tool = "get_user_by_id" -> "Error while retrieving user by id: "
      [] tool = "search_users" -> "Error while searching users: "
      [] OTHER -> "Error while updating user: "

\* execute wraps its whole body in try/except Exception; the update tool's
\* source is absent, so it may or may not
CatchesAll(tool) == tool # "update_user"

\* variant: execute without its try/except
ExecuteFailureUncaught(tool, e) ==
    {[raised |-> TRUE, text |-> Str("", e)]}

\* what `await tool.execute(arguments)` can end with when an exception e is
\* raised inside it: outcomes are [raised, text]
ExecuteFailure(tool, e) ==
    IF CatchesAll(tool)
    THEN {[raised |-> FALSE, text |-> Str(ErrorPrefix(tool), e)]}
    ELSE {[raised |-> FALSE, text |-> Str(ErrorPrefix(tool), e)],
          [raised |-> TRUE, text |-> Str("", e)]}

\* what the user-service client hands back to a tool
ClientTexts == {Str("", "user-service-reply")}
ClientErrors == {"user-service-failure"}

-----------------------------------------------------------------------------
(* MCPServer request handlers.                                             *)

\* MCPServer._validate_protocol_version
_validate_protocol_version(client_version) ==
    LET supported_versions == {"2024-11-05"}
    IN  IF client_version \in supported_versions
        THEN client_version
        ELSE protocol_version

\* MCPServer.handle_initialize: the response (the session is stored by the
\* endpoint action below, which draws the uuid)
handle_initialize(request) ==
    LET version == IF ParamsTruthy(request.params)
                   THEN ParamGet(request.params, "protocolVersion")
                   ELSE protocol_version
    IN  MCPResponse(request.id,
                    [protocolVersion |-> version,
                     capabilities |-> [tools |-> EmptyDict,
                                       resources |-> EmptyDict,
                                       prompts |-> EmptyDict],
                     serverInfo |-> server_info],
                    None)

\* tool.to_mcp_tool(): the wire form of a tool, of which the model keeps the
\* name (the base class of the tools is not part of the sources)
to_mcp_tool(tool) == [name |-> tool]

\* variant: the response built with the id of the endpoint's own errors
handle_tools_listServerError(request, registry) ==
    MCPResponse("server-error",
                [tools |-> [i \in DOMAIN registry |-> to_mcp_tool(registry[i])]],
                None)

\* variant: the comprehension stops one tool short
handle_tools_listShort(request, registry) ==
    MCPResponse(request.id,
                [tools |-> [i \in 1..(Len(registry) - 1) |->
                               to_mcp_tool(registry[i])]],
                None)

\* MCPServer.handle_tools_list
handle_tools_list(request, registry) ==
    MCPResponse(request.id,
                [tools |-> [i \in DOMAIN registry |-> to_mcp_tool(registry[i])]],
                None)

\* MCPServer.handle_tools_call up to `await tool.execute(arguments)`:
\* the error response, or None when the tool is to be executed
ToolsCallRejection(request, registry) ==
    LET tool_name == ParamGet(request.params, "name")
    IN  IF ~ParamsTruthy(request.params)
        THEN MCPResponse(request.id, None,
                         ErrorResponse(32602, Str("Missing parameters", "")))
        ELSE IF ~Truthy(tool_name)
        THEN MCPResponse(request.id, None,
                         ErrorResponse(32602,
                             Str("Missing required parameter: name", "")))
        ELSE IF tool_name \notin ToolNames(registry)
        THEN MCPResponse(request.id, None,
                         ErrorResponse(32601,
                             Str("Tool '{}' not found", tool_name)))
        ELSE None

\* variant: an exception of execute becomes a JSON-RPC error
ToolsCallResponseAsError(request, outcome) ==
    IF outcome.raised
    THEN MCPResponse(request.id, None,
                     ErrorResponse(-32603,
                         Str("Tool execution error: ", outcome.text.arg)))
    ELSE MCPResponse(request.id,
                     [content |-> <<[type |-> "text", text |-> outcome.text]>>],
                     None)

\* MCPServer.handle_tools_call: the response once tool.execute has ended
ToolsCallResponse(request, outcome) ==
    IF outcome.raised
    THEN MCPResponse(request.id,
                     [content |-> <<[type |-> "text",
                                     text |-> Str("Tool execution error: ",
                                                  outcome.text.arg)]>>,
                      isError |-> TRUE],
                     None)
    ELSE MCPResponse(request.id,
                     [content |-> <<[type |-> "text", text |-> outcome.text]>>],
                     None)

-----------------------------------------------------------------------------
(* Serialisation.                                                          *)

\* a member of an MCPResponse is None
IsNoneMember(m, k) == IF k = "id" THEN m[k] = NoValue ELSE m[k] = None

\* model_dump_json: the JSON object, without the None members when
\* exclude_none is set
model_dump_json(m, exclude_none) ==
    LET keys == {k \in DOMAIN m : ~(exclude_none /\ IsNoneMember(m, k))}
    IN  [k \in keys |-> m[k]]

\* one frame of the stream: prefix + payload + suffix
DataFrame(payload) == [prefix |-> "data: ", payload |-> payload]
DONE == DataFrame([sentinel |-> "[DONE]"])

-----------------------------------------------------------------------------
(* Requests the clients send.                                              *)

Methods == {"initialize", "notifications/initialized", "tools/list",
            "tools/call", "resources/list"}

InitializeParams ==
    {NoParams, Params(EmptyDict),
     Params([protocolVersion |-> "2024-11-05"]),
     Params([protocolVersion |-> "2025-03-26"]),
     Params([clientInfo |-> "my-custom-mcp-client"])}

ToolsCallParams ==
    {NoParams, Params(EmptyDict), Params([arguments |-> "good"]),
     Params([name |-> "", arguments |-> "good"]),
     Params([name |-> "no_such_tool", arguments |-> "good"]),
     Params([name |-> "search_users"])}
    \cup {Params([name |-> n, arguments |-> a]) :
            n \in ToolNames(_register_tools), a \in {"good", "bad"}}

ParamsFor(method) ==
    CASE method = "initialize" -> InitializeParams
      [] method = "tools/call" -> ToolsCallParams
      [] OTHER -> {NoParams}

AcceptHeaders ==
    {NoAccept,
     AcceptHeader(<<>>),
     AcceptHeader(<<"application/json">>),
     AcceptHeader(<<" text/event-stream ", "text/html">>),
     AcceptHeader(<<" Application/JSON", "text/event-stream;q=0.9">>)}

SessionHeaders == {NoValue, ""} \cup SessionIds

\* MCPRequest: the JSON-RPC body of a POST
MCPRequest(id, method, params) ==
    [id |-> id, method |-> method, params |-> params]

Requests ==
    UNION {{MCPRequest(id, m, p) : id \in ReqIds, p \in ParamsFor(m)} :
              m \in Methods}

NoRequest == MCPRequest(NoValue, NoValue, NoParams)

\* the POSTs made: <<request, accept, mcp_session_id>>.  With an Accept
\* header that passes the check, every request with every session header;
\* with one that does not, every method and session header without params
\* (the endpoint returns before it reads the body)
Posts ==
    {<<r, a, h>> : r \in Requests,
                   a \in {x \in AcceptHeaders : _validate_accept_header(x)},
                   h \in SessionHeaders}
    \cup
    {<<r, a, h>> : r \in {x \in Requests : x.params = NoParams},
                   a \in {x \in AcceptHeaders : ~_validate_accept_header(x)},
                   h \in SessionHeaders}

-----------------------------------------------------------------------------
(* A task is one POST (its body request and its headers accept and         *)
(* mcp_session_id) and the reply.  pc: "idle" (no request yet),            *)
(* "replied" (a complete Response was returned), "stream" (a               *)
(* StreamingResponse was returned and _create_sse_stream is between two    *)
(* yields), "await" (it is suspended in handle_tools_call, inside the      *)
(* tool's call of the user service), "done" (the stream has ended).        *)
(* executed and client_calls count the tool executions and the             *)
(* user-service calls made for the request; execute_ended tells how        *)
(* `await tool.execute(arguments)` ended: "no", "return" or "raise".       *)
(* session is the handler's local variable: what get_session returned      *)
(* (None when the handler did not come to the lookup).                     *)

IdleTask ==
    [pc |-> "idle", request |-> NoRequest, accept |-> NoAccept,
     mcp_session_id |-> NoValue, status_code |-> 0,
     media_type |-> NoValue, session_header |-> NoValue, content |-> None,
     messages |-> <<>>, frames |-> <<>>, executed |-> 0, client_calls |-> 0,
     execute_ended |-> "no", session |-> None]

\* Response(status_code=..., content=..., media_type=..., headers=...)
Response(status_code, content, media_type, session_header) ==
    [IdleTask EXCEPT !.pc = "replied",
                     !.status_code = status_code, !.media_type = media_type,
                     !.session_header = session_header, !.content = content]

\* StreamingResponse(content=_create_sse_stream(messages), ...)
StreamingResponse(messages, session_header) ==
    [IdleTask EXCEPT !.pc = "stream",
                     !.status_code = 200, !.media_type = "text/event-stream",
                     !.session_header = session_header, !.messages = messages]

\* the coroutine object handle_tools_call(request), not yet started
Coroutine(request) == [coroutine |-> "handle_tools_call", request |-> request]

isawaitable(message) == "coroutine" \in DOMAIN message

\* variant: no request is taken while a tool execution is pending
FreeOfExecutions(t) ==
    tasks[t].pc = "idle" /\ \A u \in Tasks : tasks[u].pc # "await"

Free(t) == tasks[t].pc = "idle"

\* task t after the endpoint returned reply for the POST
Replied(t, request, accept, mcp_session_id, reply) ==
    [tasks EXCEPT ![t] = [reply EXCEPT !.request = request, !.accept = accept,
                                       !.mcp_session_id = mcp_session_id]]

-----------------------------------------------------------------------------
(* The endpoint.                                                           *)

\* handle_mcp_request, step 2: method == "initialize"
Initialize(t, request, accept, mcp_session_id) ==
    \E session_id \in FreshIds(sessions) :
        /\ sessions' = StoreSession(sessions, MCPSession(session_id, now))
        /\ tasks' = Replied(t, request, accept, mcp_session_id,
              StreamingResponse(<<handle_initialize(request)>>, session_id))

\* variant: `if mcp_session_id is None`
MissingSessionIdIsNone(mcp_session_id) == mcp_session_id = NoValue

\* `if not mcp_session_id`
MissingSessionId(mcp_session_id) == ~Truthy(mcp_session_id)

\* variant: the readiness check is left out
NotReadyUnchecked(session) == FALSE

\* `if not session.ready_for_operation`
NotReady(session) == ~session.ready_for_operation

\* variant: the body dumped with exclude_none=True, as the stream's frames
MissingSessionBodyExcludingNone ==
    model_dump_json(
        MCPResponse("server-error", None,
            ErrorResponse(-32600, Str("Missing session ID", ""))), TRUE)

\* the body of the two "Missing session ID" replies
MissingSessionBody ==
    model_dump_json(
        MCPResponse("server-error", None,
            ErrorResponse(-32600, Str("Missing session ID", ""))), FALSE)

\* handle_mcp_request, step 3: every other method; the store after it and
\* the reply
Operate(request, mcp_session_id) ==
    LET session == get_session(sessions, mcp_session_id)
        looked_up == TouchSession(sessions, mcp_session_id, now)
        Found(reply) ==
            [reply EXCEPT !.session = get_session(looked_up, mcp_session_id)]
    IN  IF MissingSessionId(mcp_session_id)
        THEN [store |-> sessions,
              reply |-> Response(400, MissingSessionBody,
                                 "application/json", NoValue)]
        ELSE IF session = None
        THEN [store |-> looked_up,
              reply |-> Response(400, Str("No valid session ID provided", ""),
                                 NoValue, NoValue)]
        ELSE IF request.method = "notifications/initialized"
        THEN [store |-> MarkReady(looked_up, mcp_session_id),
              reply |-> Found(Response(202, None, NoValue,
                                       session.session_id))]
        ELSE IF NotReady(session)
        THEN [store |-> looked_up,
              reply |-> Found(Response(400, MissingSessionBody,
                                       "application/json", NoValue))]
        ELSE [store |-> looked_up,
              reply |-> Found(StreamingResponse(
                  <<CASE request.method = "tools/list" ->
                           handle_tools_list(request, tools)
                      [] request.method = "tools/call" ->
                           Coroutine(request)
                      [] OTHER ->
                           MCPResponse(request.id, None,
                               ErrorResponse(-32602,
                                   Str("Method '{}' not found",
                                       request.method)))>>,
                  mcp_session_id))]

\* variant: the error response built with result={} as well
NotAcceptableBodyWithResult ==
    model_dump_json(
        MCPResponse("server-error", EmptyDict,
            ErrorResponse(-32600,
                Str("Client must accept both application/json and text/event-stream", ""))),
        FALSE)

\* the body of the 406 reply
NotAcceptableBody ==
    model_dump_json(
        MCPResponse("server-error", None,
            ErrorResponse(-32600,
                Str("Client must accept both application/json and text/event-stream", ""))),
        FALSE)

\* POST /mcp: handle_mcp_request, from the Accept check to the return
handle_mcp_request(t, request, accept, mcp_session_id) ==
    /\ Free(t)
    /\ IF ~_validate_accept_header(accept)
       THEN /\ sessions' = sessions
            /\ tasks' = Replied(t, request, accept, mcp_session_id,
                  Response(406, NotAcceptableBody, "application/json", NoValue))
       ELSE IF request.method = "initialize"
       THEN Initialize(t, request, accept, mcp_session_id)
       ELSE LET done == Operate(request, mcp_session_id)
            IN  /\ sessions' = done.store
                /\ tasks' = Replied(t, request, accept, mcp_session_id,
                                    done.reply)
    /\ UNCHANGED <<tools, now>>

\* a POST /mcp of a client the model does not follow
POST(t, request, accept, mcp_session_id) ==
    /\ handle_mcp_request(t, request, accept, mcp_session_id)
    /\ UNCHANGED client

-----------------------------------------------------------------------------
(* _create_sse_stream and the coroutine it awaits.                         *)

\* hasattr(message, "model_dump_json"): the message is an MCPResponse
IsModel(message) == DOMAIN message = {"id", "result", "error"}

\* the frame of a message that is at hand: a model is dumped without its
\* None members, anything else goes through json.dumps as it is
FrameOf(message) ==
    IF IsModel(message)
    THEN DataFrame(model_dump_json(message, TRUE))
    ELSE DataFrame(message)

\* variant: the new frame is put before the frames already yielded
YieldFirst(task, message) ==
    [task EXCEPT !.pc = "stream", !.frames = <<FrameOf(message)>> \o @]

Yield(task, message) ==
    [task EXCEPT !.pc = "stream", !.frames = Append(@, FrameOf(message))]

\* variant: a failed execution is started again
YieldExecutedRetrying(task, request, outcome) ==
    IF outcome.raised \/ outcome.text.fmt # ""
    THEN [task EXCEPT !.pc = "await", !.executed = @ + 1]
    ELSE [Yield(task, ToolsCallResponse(request, outcome)) EXCEPT
             !.execute_ended = "return"]

\* handle_tools_call returns after tool.execute ended with outcome
YieldExecuted(task, request, outcome) ==
    [Yield(task, ToolsCallResponse(request, outcome)) EXCEPT
        !.execute_ended = IF outcome.raised THEN "raise" ELSE "return"]

\* one turn of `for message in messages`: an awaitable message is awaited,
\* which runs handle_tools_call to its return or to the tool's call of the
\* user service; the frame of a message at hand is yielded
StreamMessage(t) ==
    LET task == tasks[t]
        message == task.messages[Len(task.frames) + 1]
        request == message.request
        rejection == ToolsCallRejection(request, tools)
        tool == ParamGet(request.params, "name")
        executing == [task EXCEPT !.executed = @ + 1]
    IN  /\ task.pc = "stream"
        /\ Len(task.frames) < Len(task.messages)
        /\ IF ~isawaitable(message)
           THEN tasks' = [tasks EXCEPT ![t] = Yield(task, message)]
           ELSE IF rejection # None
           THEN tasks' = [tasks EXCEPT ![t] = Yield(task, rejection)]
           ELSE IF ArgumentsAccepted(tool, ArgumentsOf(request.params))
           THEN tasks' = [tasks EXCEPT ![t] =
                    [executing EXCEPT !.pc = "await", !.client_calls = @ + 1]]
           ELSE \E outcome \in ExecuteFailure(tool, "invalid-arguments") :
                    tasks' = [tasks EXCEPT ![t] =
                        YieldExecuted(executing, request, outcome)]
        /\ UNCHANGED <<sessions, tools, now, client>>

\* the user service answers: execute returns its text
ClientReturns(t) ==
    LET task == tasks[t]
        request == task.messages[Len(task.frames) + 1].request
    IN  /\ task.pc = "await"
        /\ \E text \in ClientTexts :
              tasks' = [tasks EXCEPT ![t] =
                  YieldExecuted(task, request,
                                [raised |-> FALSE, text |-> text])]
        /\ UNCHANGED <<sessions, tools, now, client>>

\* the user-service call raises inside execute
ClientRaises(t) ==
    LET task == tasks[t]
        request == task.messages[Len(task.frames) + 1].request
        tool == ParamGet(request.params, "name")
    IN  /\ task.pc = "await"
        /\ \E e \in ClientErrors : \E outcome \in ExecuteFailure(tool, e) :
              tasks' = [tasks EXCEPT ![t] =
                  YieldExecuted(task, request, outcome)]
        /\ UNCHANGED <<sessions, tools, now, client>>

\* after the last message: yield b"data: [DONE]\n\n"
StreamDone(t) ==
    LET task == tasks[t]
    IN  /\ task.pc = "stream"
        /\ Len(task.frames) = Len(task.messages)
        /\ tasks' = [tasks EXCEPT ![t] =
              [task EXCEPT !.pc = "done", !.frames = Append(@, DONE)]]
        /\ UNCHANGED <<sessions, tools, now, client>>

\* the reply has been delivered and the connection is closed
Close(t) ==
    /\ tasks[t].pc \in {"replied", "done"}
    /\ tasks' = [tasks EXCEPT ![t] = IdleTask]
    /\ UNCHANGED <<sessions, tools, now, client>>

\* asyncio.get_event_loop().time() moves on
Tick ==
    /\ now < MaxTime
    /\ now' = now + 1
    /\ UNCHANGED <<sessions, tools, tasks, client>>

-----------------------------------------------------------------------------

\* CustomMCPClient.__init__: no session id; pc is the client's place in
\* connect(), log the requests the current connect() has sent, held the
\* session id the client had when connect() was called, connects the number
\* of calls of connect()
NewClient ==
    [session_id |-> NoValue, pc |-> "new", log |-> <<>>, held |-> NoValue,
     connects |-> 0]

\* mcp_server = MCPServer(): no session, the registry built
Init ==
    /\ sessions = EmptyDict
    /\ tools = _register_tools
    /\ now = 0
    /\ tasks = [t \in Tasks |-> IdleTask]
    /\ client = NewClient

\* one POST at a time: the endpoint has no await, so a handler runs from
\* the Accept check to its return without another one in between
Next ==
    \/ \E post \in Posts : POST(1, post[1], post[2], post[3])
    \/ StreamMessage(1)
    \/ ClientReturns(1)
    \/ ClientRaises(1)
    \/ StreamDone(1)
    \/ Close(1)
    \/ Tick

Spec == Init /\ [][Next]_vars

\* the POSTs of the clients that are served side by side: each holds a
\* session id (or none yet, for initialize) and sends an Accept header that
\* passes the check
ConcPosts ==
    {<<MCPRequest(id, "initialize", NoParams), a, NoValue>> :
        id \in ReqIds, a \in {x \in AcceptHeaders : _validate_accept_header(x)}}
    \cup
    {<<MCPRequest(id, m, NoParams), a, h>> :
        id \in ReqIds, m \in {"notifications/initialized", "tools/list"},
        a \in {x \in AcceptHeaders : _validate_accept_header(x)},
        h \in SessionIds}
    \cup
    {<<MCPRequest(id, "tools/call",
                  Params([name |-> "add_user", arguments |-> "good"])), a, h>> :
        id \in ReqIds,
        a \in {x \in AcceptHeaders : _validate_accept_header(x)},
        h \in SessionIds}

\* several POSTs in flight: a handler still runs from the Accept check to
\* its return in one piece, and the streams of the replies, with the tool
\* executions they await, take their turns on the event loop in any order
NextConc ==
    \/ \E t \in Tasks, post \in ConcPosts :
          POST(t, post[1], post[2], post[3])
    \/ \E t \in Tasks : StreamMessage(t)
    \/ \E t \in Tasks : ClientReturns(t)
    \/ \E t \in Tasks : ClientRaises(t)
    \/ \E t \in Tasks : StreamDone(t)
    \/ \E t \in Tasks : Close(t)
    \/ Tick

SpecConc == Init /\ [][NextConc]_vars

\* messages a caller can hand to _create_sse_stream: responses at hand, a
\* plain dict, and handle_tools_call coroutines (one that ends before the
\* tool, one that executes a tool)
StreamMessages ==
    {handle_tools_list(MCPRequest(id, "tools/list", NoParams), _register_tools) :
        id \in ReqIds}
    \cup
    {MCPResponse(id, None, ErrorResponse(-32602, Str("Method '{}' not found",
                                                    "resources/list"))) :
        id \in ReqIds}
    \cup
    {[jsonrpc |-> "2.0", method |-> "notifications/message"]}
    \cup
    {Coroutine(MCPRequest(id, "tools/call", params)) :
        id \in ReqIds,
        params \in {Params([name |-> "no_such_tool", arguments |-> "good"]),
                    Params([name |-> "add_user", arguments |-> "good"])}}

RECURSIVE ListsUpTo(_, _)
ListsUpTo(S, n) ==
    IF n = 0 THEN {<<>>}
    ELSE LET shorter == ListsUpTo(S, n - 1)
         IN  shorter \cup {Append(l, m) : l \in shorter, m \in S}

\* _create_sse_stream(messages) called on any list of messages
StreamInit ==
    /\ sessions = EmptyDict
    /\ tools = _register_tools
    /\ now = 0
    /\ client = NewClient
    /\ \E messages \in ListsUpTo(StreamMessages, MaxMessages) :
          tasks = [t \in Tasks |->
                     IF t = 1 THEN StreamingResponse(messages, NoValue)
                     ELSE IdleTask]

\* the generator run by its consumer: one `async for` turn after another
StreamNext ==
    \/ StreamMessage(1)
    \/ ClientReturns(1)
    \/ ClientRaises(1)
    \/ StreamDone(1)

SpecStream == StreamInit /\ [][StreamNext]_vars

-----------------------------------------------------------------------------
(* CustomMCPClient (src/agent/clients/custom_mcp_client.py): connect() on  *)
(* one client, whose POSTs are served on connection 1, while other clients *)
(* are served on connection 2.                                             *)

\* "Accept": "application/json, text/event-stream", as split(",") yields it
ClientAccept == AcceptHeader(<<"application/json", " text/event-stream">>)

\* init_params of connect()
init_params == Params([protocolVersion |-> "2024-11-05"])

\* variant: `if self.session_id:`, as _send_notification has it
RequestSessionHeaderAlways(method, session_id) ==
    IF Truthy(session_id) THEN session_id ELSE NoValue

\* _send_request: `if method != "initialize" and self.session_id:`
RequestSessionHeader(method, session_id) ==
    IF method # "initialize" /\ Truthy(session_id) THEN session_id ELSE NoValue

\* _send_notification: `if self.session_id:`
NotificationSessionHeader(session_id) ==
    IF Truthy(session_id) THEN session_id ELSE NoValue

\* the request has been posted with this session header
Sent(c, method, header) ==
    [c EXCEPT !.log = Append(@, [method |-> method, header |-> header])]

\* connect(), to the POST of _send_request("initialize", init_params);
\* it may be called on a new client and again after it returned or raised
connect ==
    /\ client.pc \in {"new", "connected", "raised"}
    /\ client.connects < MaxConnects
    /\ \E id \in ReqIds :
          LET header == RequestSessionHeader("initialize", client.session_id)
              started == [client EXCEPT !.log = <<>>, !.connects = @ + 1,
                                        !.held = client.session_id,
                                        !.pc = "initialize"]
          IN  /\ handle_mcp_request(1, MCPRequest(id, "initialize", init_params),
                                    ClientAccept, header)
              /\ client' = Sent(started, "initialize", header)

\* _send_request: `if not self.session_id and response.headers.get(...)`
ReceivedSessionId(session_id, response) ==
    IF ~Truthy(session_id) /\ Truthy(response.session_header)
    THEN response.session_header ELSE session_id

\* _send_request from the response on: the session id is taken from the
\* headers, the first data frame of the stream (or the JSON body) is read,
\* and an error in it raises; the connection is released
_send_request_response ==
    LET response == tasks[1]
        streamed == response.media_type = "text/event-stream"
        response_data == IF streamed THEN response.frames[1].payload
                         ELSE response.content
        raises == \/ response.media_type = NoValue
                  \/ "error" \in DOMAIN response_data /\ response_data.error # None
    IN  /\ client.pc = "initialize"
        /\ IF streamed THEN Len(response.frames) >= 1 ELSE response.pc = "replied"
        /\ client' = [client EXCEPT
              !.session_id = ReceivedSessionId(@, response),
              !.pc = IF raises THEN "raised" ELSE "notify"]
        /\ tasks' = [tasks EXCEPT ![1] = IdleTask]
        /\ UNCHANGED <<sessions, tools, now>>

\* connect(): _send_notification("notifications/initialized"), to its POST;
\* the body of a notification has no id
_send_notification ==
    LET header == NotificationSessionHeader(client.session_id)
    IN  /\ client.pc = "notify"
        /\ handle_mcp_request(1,
              MCPRequest(NoValue, "notifications/initialized", NoParams),
              ClientAccept, header)
        /\ client' = Sent([client EXCEPT !.pc = "notified"],
                          "notifications/initialized", header)

\* _send_notification from the response on: the session id of the headers,
\* when there is one, replaces the client's, whatever the status; connect()
\* returns
_send_notification_response ==
    LET response == tasks[1]
    IN  /\ client.pc = "notified"
        /\ response.pc # "idle"
        /\ client' = [client EXCEPT
              !.session_id = IF Truthy(response.session_header)
                             THEN response.session_header ELSE @,
              !.pc = "connected"]
        /\ tasks' = [tasks EXCEPT ![1] = IdleTask]
        /\ UNCHANGED <<sessions, tools, now>>

\* aiohttp raises while a response is awaited (the 30 s timeout, a broken
\* connection): connect() raises RuntimeError
ConnectRaises ==
    /\ client.pc \in {"initialize", "notified"}
    /\ tasks[1].pc # "idle"
    /\ client' = [client EXCEPT !.pc = "raised"]
    /\ tasks' = [tasks EXCEPT ![1] = IdleTask]
    /\ UNCHANGED <<sessions, tools, now>>

\* what the other clients post meanwhile: the requests that create, mark
\* and look up sessions
OtherPosts == {post \in ConcPosts : post[1].method # "tools/call"}

\* the client's handshake next to the requests of other clients
ClientNext ==
    \/ connect
    \/ _send_request_response
    \/ _send_notification
    \/ _send_notification_response
    \/ ConnectRaises
    \/ StreamMessage(1)
    \/ StreamDone(1)
    \/ \E post \in OtherPosts : POST(2, post[1], post[2], post[3])
    \/ StreamMessage(2)
    \/ StreamDone(2)
    \/ Close(2)
    \/ Tick

SpecClient == Init /\ [][ClientNext]_vars

-----------------------------------------------------------------------------
(* Vocabulary of the properties.                                           *)

\* this step is handle_mcp_request taking the request now held by task t
Dispatched(t) == tasks[t].pc = "idle" /\ tasks'[t].pc # "idle"

Acceptable(task) == _validate_accept_header(task.accept)

IsReady(store, s) == s \in DOMAIN store /\ store[s].ready_for_operation

\* the JSON-RPC response in the first data frame of a task's stream
Framed(task) == task.status_code = 200 /\ Len(task.frames) >= 1
Payload(task) == task.frames[1].payload

\* a plain JSON body carrying the given error and no result
IsJsonError(task, code, message) ==
    /\ task.pc = "replied"
    /\ task.media_type = "application/json"
    /\ task.content # None
    /\ DOMAIN task.content = {"id", "result", "error"}
    /\ task.content.result = None
    /\ task.content.error = ErrorResponse(code, Str(message, ""))

NothingRun(task) ==
    /\ task.executed = 0
    /\ task.client_calls = 0
    /\ task.execute_ended = "no"

IsTextContent(content) ==
    /\ Len(content) = 1
    /\ DOMAIN content[1] = {"type", "text"}
    /\ content[1].type = "text"

-----------------------------------------------------------------------------
(* C1 - session readiness                                                  *)

\* C1: a session is not ready in the state right after the initialize
\* request that created it, and its ready flag goes from false to true only
\* in a step that handles a notifications/initialized request carrying
\* exactly that session's id and an acceptable Accept header; no other
\* method and no notification for another session id sets it.
C1_ReadyOnlyByOwnNotification ==
    [][\A s \in SessionIds :
          /\ (s \notin DOMAIN sessions /\ s \in DOMAIN sessions') =>
                /\ ~sessions'[s].ready_for_operation
                /\ \E t \in Tasks :
                      /\ Dispatched(t)
                      /\ tasks'[t].request.method = "initialize"
                      /\ tasks'[t].session_header = s
          /\ (IsReady(sessions', s) /\ ~IsReady(sessions, s)) =>
                /\ s \in DOMAIN sessions
                /\ \E t \in Tasks :
                      /\ Dispatched(t)
                      /\ tasks'[t].request.method = "notifications/initialized"
                      /\ tasks'[t].mcp_session_id = s
                      /\ Acceptable(tasks'[t])]_vars

\* a notification for one session was answered while another session,
\* created as well, is still not ready
C1_Witness ==
    \E s \in DOMAIN sessions, other \in DOMAIN sessions, t \in Tasks :
        /\ s # other
        /\ sessions[s].ready_for_operation
        /\ ~sessions[other].ready_for_operation
        /\ tasks[t].request.method = "notifications/initialized"
        /\ tasks[t].mcp_session_id = s
        /\ tasks[t].status_code = 202

-----------------------------------------------------------------------------
(* C2 - tools/call before readiness                                        *)

\* C2: a tools/call request dispatched while its session exists and is not
\* ready is answered with the not-ready error (code -32600) and no result,
\* without any tool execution or user-service call, whatever its params;
\* and a reply returned as a complete Response never turns into a stream or
\* a tool execution later.
C2_NotReadyToolsCallRejected ==
    [][\A t \in Tasks :
          /\ ( /\ Dispatched(t)
               /\ tasks'[t].request.method = "tools/call"
               /\ Acceptable(tasks'[t])
               /\ tasks'[t].mcp_session_id \in DOMAIN sessions
               /\ ~IsReady(sessions, tasks'[t].mcp_session_id) ) =>
                /\ IsJsonError(tasks'[t], -32600, "Missing session ID")
                /\ tasks'[t].frames = <<>>
                /\ NothingRun(tasks'[t])
          /\ tasks[t].pc = "replied" => tasks'[t] \in {tasks[t], IdleTask}]_vars

\* a not-ready session's call of a registered tool with good arguments was
\* rejected
C2_Witness ==
    \E t \in Tasks :
        /\ tasks[t].request.method = "tools/call"
        /\ tasks[t].request.params =
              Params([name |-> "add_user", arguments |-> "good"])
        /\ tasks[t].mcp_session_id \in DOMAIN sessions
        /\ ~IsReady(sessions, tasks[t].mcp_session_id)
        /\ tasks[t].status_code = 400
        /\ tasks[t].content.error.code = -32600

-----------------------------------------------------------------------------
(* C3 - READY is terminal                                                  *)

\* C3: a session that is in the store and ready is still in the store and
\* ready after every step, whatever request the step handles.
C3_ReadyIsTerminal ==
    [][\A s \in DOMAIN sessions :
          sessions[s].ready_for_operation => IsReady(sessions', s)]_vars

\* an initialize request carrying a ready session's id was handled (it
\* created another session) and that session is still ready
C3_Witness ==
    \E s \in DOMAIN sessions, t \in Tasks :
        /\ sessions[s].ready_for_operation
        /\ tasks[t].request.method = "initialize"
        /\ tasks[t].mcp_session_id = s
        /\ tasks[t].status_code = 200
        /\ tasks[t].session_header # s

-----------------------------------------------------------------------------
(* C4, C5 - validation errors of tools/call                                *)

\* C4: the reply to a tools/call of a READY session whose params.name is
\* not a key of the registry carries error code -32601, and no tool is
\* executed and no user-service call made for it.
C4_UnknownToolCode ==
    \A t \in Tasks :
        ( /\ tasks[t].request.method = "tools/call"
          /\ Framed(tasks[t])
          /\ Truthy(ParamGet(tasks[t].request.params, "name"))
          /\ ParamGet(tasks[t].request.params, "name") \notin ToolNames(tools) ) =>
            /\ "error" \in DOMAIN Payload(tasks[t])
            /\ Payload(tasks[t]).error.code = -32601
            /\ NothingRun(tasks[t])

\* C5: the reply to a tools/call of a READY session with params missing or
\* empty, or without params.name, carries error code -32602 and no result,
\* and no tool is executed.
C5_MissingParamsCode ==
    \A t \in Tasks :
        ( /\ tasks[t].request.method = "tools/call"
          /\ Framed(tasks[t])
          /\ \/ ~ParamsTruthy(tasks[t].request.params)
             \/ "name" \notin DOMAIN tasks[t].request.params.d ) =>
            /\ "error" \in DOMAIN Payload(tasks[t])
            /\ Payload(tasks[t]).error.code = -32602
            /\ "result" \notin DOMAIN Payload(tasks[t])
            /\ NothingRun(tasks[t])

-----------------------------------------------------------------------------
(* C6 - execution failures                                                 *)

\* C6: once the execute of a registered tool has ended for a tools/call of
\* a READY session, the response framed has a result and no error field;
\* the result is {content: [text item], isError: true} when execute raised
\* and {content: [text item]} without isError when it returned.
C6_ExecutionFailureIsResult ==
    \A t \in Tasks :
        tasks[t].execute_ended # "no" =>
            /\ tasks[t].request.method = "tools/call"
            /\ Framed(tasks[t])
            /\ DOMAIN Payload(tasks[t]) = {"id", "result"}
            /\ Payload(tasks[t]).id = tasks[t].request.id
            /\ IsTextContent(Payload(tasks[t]).result.content)
            /\ tasks[t].execute_ended = "raise" =>
                  /\ DOMAIN Payload(tasks[t]).result = {"content", "isError"}
                  /\ Payload(tasks[t]).result.isError = TRUE
            /\ tasks[t].execute_ended = "return" =>
                  DOMAIN Payload(tasks[t]).result = {"content"}

\* a tool's execute raised after its user-service call failed, and the
\* response was framed
C6_Witness ==
    \E t \in Tasks :
        /\ tasks[t].execute_ended = "raise"
        /\ tasks[t].client_calls = 1
        /\ Framed(tasks[t])
        /\ Payload(tasks[t]).result.isError = TRUE

-----------------------------------------------------------------------------
(* C7 - protocol version                                                   *)

\* C7: the protocolVersion of every initialize result is the client's
\* params.protocolVersion when that is a supported version and the server's
\* own version in every other case.
C7_NegotiatedVersion ==
    \A t \in Tasks :
        (tasks[t].request.method = "initialize" /\ Framed(tasks[t])) =>
            Payload(tasks[t]).result.protocolVersion =
                _validate_protocol_version(
                    ParamGet(tasks[t].request.params, "protocolVersion"))

-----------------------------------------------------------------------------
(* C8 - unknown method                                                     *)

KnownMethods == {"initialize", "notifications/initialized", "tools/list",
                 "tools/call"}

\* C8: a request of a READY session with a method other than the four known
\* ones is answered with an SSE stream of status 200, changes no session's
\* ready flag, and the response framed carries error code -32601.
C8_UnknownMethodCode ==
    [][\A t \in Tasks :
          /\ ( /\ Dispatched(t)
               /\ tasks'[t].request.method \notin KnownMethods
               /\ Acceptable(tasks'[t])
               /\ IsReady(sessions, tasks'[t].mcp_session_id) ) =>
                /\ tasks'[t].status_code = 200
                /\ tasks'[t].media_type = "text/event-stream"
                /\ \A s \in SessionIds : IsReady(sessions', s) = IsReady(sessions, s)
          /\ ( /\ tasks'[t].request.method \notin KnownMethods
               /\ Framed(tasks'[t]) ) =>
                /\ "error" \in DOMAIN Payload(tasks'[t])
                /\ Payload(tasks'[t]).error.code = -32601]_vars

-----------------------------------------------------------------------------
(* C9, C10 - requests without a usable session id                          *)

\* C9: a request with an acceptable Accept header, a method other than
\* initialize (notifications/initialized included) and an absent or empty
\* Mcp-Session-Id header is answered with HTTP 400 and a plain JSON body of
\* error -32600 "Missing session ID", and leaves the session store as it was.
C9_MissingSessionHeader ==
    [][\A t \in Tasks :
          ( /\ Dispatched(t)
            /\ Acceptable(tasks'[t])
            /\ tasks'[t].request.method # "initialize"
            /\ tasks'[t].mcp_session_id \in {NoValue, ""} ) =>
              /\ tasks'[t].status_code = 400
              /\ IsJsonError(tasks'[t], -32600, "Missing session ID")
              /\ tasks'[t].frames = <<>>
              /\ sessions' = sessions]_vars

\* a notification with an empty session header was answered so while a
\* session was waiting for its notification
C9_Witness ==
    \E t \in Tasks, s \in DOMAIN sessions :
        /\ ~sessions[s].ready_for_operation
        /\ sessions[s].last_activity < now
        /\ tasks[t].request.method = "notifications/initialized"
        /\ tasks[t].mcp_session_id = ""
        /\ Acceptable(tasks[t])
        /\ tasks[t].status_code = 400

\* C10: a non-initialize request whose Mcp-Session-Id header is present but
\* names no stored session is answered with HTTP 400 and a plain-text body
\* that is no JSON-RPC response, for every method; no session is created
\* and no stored session changes.
C10_UnknownSessionId ==
    [][\A t \in Tasks :
          ( /\ Dispatched(t)
            /\ Acceptable(tasks'[t])
            /\ tasks'[t].request.method # "initialize"
            /\ Truthy(tasks'[t].mcp_session_id)
            /\ tasks'[t].mcp_session_id \notin DOMAIN sessions ) =>
              /\ tasks'[t].pc = "replied"
              /\ tasks'[t].status_code = 400
              /\ tasks'[t].media_type # "application/json"
              /\ tasks'[t].content = Str("No valid session ID provided", "")
              /\ DOMAIN tasks'[t].content \cap {"id", "result", "error"} = {}
              /\ tasks'[t].frames = <<>>
              /\ sessions' = sessions]_vars

\* a notification naming an id that no session has was answered so while
\* another session was stored
C10_Witness ==
    \E t \in Tasks, s \in DOMAIN sessions :
        /\ sessions[s].last_activity < now
        /\ tasks[t].request.method = "notifications/initialized"
        /\ tasks[t].mcp_session_id \in SessionIds \ DOMAIN sessions
        /\ Acceptable(tasks[t])
        /\ tasks[t].status_code = 400
        /\ tasks[t].content = Str("No valid session ID provided", "")

-----------------------------------------------------------------------------
(* C11 - the reply to a request on a session that is not ready             *)

\* the handler of this task's request found its session, not ready, and the
\* request is no notifications/initialized (an initialize request looks up
\* no session)
FoundNotReady(task) ==
    /\ task.pc # "idle"
    /\ task.session # None
    /\ ~task.session.ready_for_operation
    /\ task.request.method # "notifications/initialized"

\* C11 as stated: a request on an existing, not ready session is answered
\* with HTTP 400 and the JSON-RPC error -32600 "Missing session ID" framed
\* as a server-sent event stream: text/event-stream, one data frame with the
\* error, then the [DONE] frame.
C11_NotReadyIsSseFramed ==
    \A t \in Tasks :
        FoundNotReady(tasks[t]) =>
            /\ tasks[t].status_code = 400
            /\ tasks[t].media_type = "text/event-stream"
            /\ tasks[t].pc \in {"stream", "done"}
            /\ tasks[t].pc = "done" =>
                  /\ Len(tasks[t].frames) = 2
                  /\ tasks[t].frames[1].payload.error =
                        ErrorResponse(-32600, Str("Missing session ID", ""))
                  /\ tasks[t].frames[2] = DONE

\* C11: a request on an existing, not ready session is answered with HTTP
\* 400 and the JSON-RPC error -32600 "Missing session ID" in a complete
\* application/json body, the very body of the reply to a missing session
\* header, with no event stream: no data frame and no [DONE] frame follows.
C11_NotReadyIsPlainJson ==
    \A t \in Tasks :
        FoundNotReady(tasks[t]) =>
            /\ tasks[t].status_code = 400
            /\ IsJsonError(tasks[t], -32600, "Missing session ID")
            /\ tasks[t].content.id = "server-error"
            /\ tasks[t].messages = <<>>
            /\ tasks[t].frames = <<>>

\* a tools/list request on a session that is not ready was answered
C11_Witness ==
    \E t \in Tasks :
        /\ FoundNotReady(tasks[t])
        /\ tasks[t].request.method = "tools/list"
        /\ tasks[t].mcp_session_id \in DOMAIN sessions
        /\ ~sessions[tasks[t].mcp_session_id].ready_for_operation
        /\ tasks[t].status_code = 400

-----------------------------------------------------------------------------
(* C12 - the Accept check comes first                                      *)

\* no media type named by the header holds marker
Lacks(accept, marker) ==
    \A i \in DOMAIN accept.parts :
        ~Contains(StripLower(accept.parts[i]), marker)

\* C12: a request whose Accept header is absent, or names no
\* application/json type, or names no text/event-stream type, is answered
\* with HTTP 406 and a complete JSON body carrying the error -32600,
\* whatever its method and its session header; the step leaves the session
\* store as it was (no session created, no ready flag set, no last_activity
\* updated), looks up no session, and starts no stream and no tool.
C12_AcceptCheckedFirst ==
    [][\A t \in Tasks :
          ( /\ Dispatched(t)
            /\ \/ ~tasks'[t].accept.given
               \/ Lacks(tasks'[t].accept, "application/json")
               \/ Lacks(tasks'[t].accept, "text/event-stream") ) =>
              /\ tasks'[t].status_code = 406
              /\ IsJsonError(tasks'[t], -32600,
                    "Client must accept both application/json and text/event-stream")
              /\ sessions' = sessions
              /\ tasks'[t].session = None
              /\ tasks'[t].session_header = NoValue
              /\ tasks'[t].messages = <<>>
              /\ tasks'[t].frames = <<>>
              /\ NothingRun(tasks'[t])]_vars

\* a notifications/initialized request for a session that is not ready,
\* sent with an Accept header that names one of the two types only, was
\* answered 406: the session is still not ready and its last_activity is
\* older than the clock
C12_Witness ==
    \E t \in Tasks, s \in DOMAIN sessions :
        /\ tasks[t].request.method = "notifications/initialized"
        /\ tasks[t].mcp_session_id = s
        /\ tasks[t].accept.given
        /\ tasks[t].accept.parts # <<>>
        /\ tasks[t].status_code = 406
        /\ ~sessions[s].ready_for_operation
        /\ sessions[s].last_activity < now

-----------------------------------------------------------------------------
(* C13 - the session id in the response headers                            *)

\* C13 as stated: every reply for which the handler resolved a session, the
\* one initialize just created or the one get_session found, carries an
\* Mcp-Session-Id response header equal to that session's id: the streamed
\* replies, the 202 reply and the 400 reply of a session that is not ready.
C13_SessionHeaderOnEveryReply ==
    [][\A t \in Tasks :
          ( /\ Dispatched(t)
            /\ Acceptable(tasks'[t]) ) =>
              /\ tasks'[t].request.method = "initialize" =>
                    /\ tasks'[t].session_header \in
                          DOMAIN sessions' \ DOMAIN sessions
                    /\ sessions'[tasks'[t].session_header].session_id =
                          tasks'[t].session_header
              /\ tasks'[t].session # None =>
                    tasks'[t].session_header = tasks'[t].session.session_id]_vars

-----------------------------------------------------------------------------
(* C14 - one response per request, and its id                              *)

\* the task's reply is a complete JSON-RPC body
HasJsonBody(task) ==
    task.pc = "replied" /\ task.media_type = "application/json"

\* the stream of the task carried one data frame and then the [DONE] frame
OneFramedResponse(task) ==
    /\ Len(task.messages) = 1
    /\ Len(task.frames) <= 2
    /\ Len(task.frames) = 2 => task.frames[2] = DONE
    /\ task.pc = "done" <=> Len(task.frames) = 2

\* C14 as stated: every request that is no notification gets exactly one
\* response and the id of that response is the id of the request, on every
\* path whose reply has a JSON-RPC body: the streamed results and errors and
\* the complete bodies of the Accept, missing-session and not-ready errors.
C14_EveryResponseCorrelated ==
    \A t \in Tasks :
        ( /\ tasks[t].pc # "idle"
          /\ tasks[t].request.method # "notifications/initialized" ) =>
            /\ HasJsonBody(tasks[t]) =>
                  tasks[t].content.id = tasks[t].request.id
            /\ tasks[t].media_type = "text/event-stream" =>
                  /\ OneFramedResponse(tasks[t])
                  /\ Len(tasks[t].frames) >= 1 =>
                        Payload(tasks[t]).id = tasks[t].request.id

\* C14: every request that is no notification gets exactly one reply.  A
\* streamed reply (the results, the tools/call errors, the unknown-method
\* error) carries exactly one response, whose id is the id of the request,
\* followed by [DONE]; a complete JSON body (the Accept, missing-session and
\* not-ready errors) carries the fixed id "server-error" and is followed by
\* no frame; the only other reply is the plain text of an unknown session.
C14_StreamedResponseCorrelated ==
    \A t \in Tasks :
        ( /\ tasks[t].pc # "idle"
          /\ tasks[t].request.method # "notifications/initialized" ) =>
            \/ /\ HasJsonBody(tasks[t])
               /\ tasks[t].status_code \in {400, 406}
               /\ tasks[t].content.id = "server-error"
               /\ tasks[t].messages = <<>>
               /\ tasks[t].frames = <<>>
            \/ /\ tasks[t].media_type = "text/event-stream"
               /\ tasks[t].status_code = 200
               /\ tasks[t].content = None
               /\ OneFramedResponse(tasks[t])
               /\ Len(tasks[t].frames) >= 1 =>
                     Payload(tasks[t]).id = tasks[t].request.id
            \/ /\ tasks[t].pc = "replied"
               /\ tasks[t].media_type = NoValue
               /\ tasks[t].status_code = 400
               /\ tasks[t].content = Str("No valid session ID provided", "")
               /\ tasks[t].frames = <<>>

\* the stream of an unknown method ended: its one response is an error with
\* the id of the request
C14_Witness ==
    \E t \in Tasks :
        /\ tasks[t].pc = "done"
        /\ tasks[t].request.method = "resources/list"
        /\ tasks[t].request.id \in ReqIds
        /\ "error" \in DOMAIN Payload(tasks[t])
        /\ Payload(tasks[t]).id = tasks[t].request.id

-----------------------------------------------------------------------------
(* C15 - notifications/initialized is idempotent                           *)

\* C15: a notifications/initialized request handled for an existing session
\* (the Accept header passing the check) leaves that session ready, whether
\* it was ready before or not, and is answered with HTTP 202 and an empty
\* body: no JSON body, no media type, no stream, never an error.
C15_NotificationIdempotent ==
    [][\A t \in Tasks :
          ( /\ Dispatched(t)
            /\ Acceptable(tasks'[t])
            /\ tasks'[t].request.method = "notifications/initialized"
            /\ tasks'[t].mcp_session_id \in DOMAIN sessions ) =>
              /\ IsReady(sessions', tasks'[t].mcp_session_id)
              /\ tasks'[t].pc = "replied"
              /\ tasks'[t].status_code = 202
              /\ tasks'[t].content = None
              /\ tasks'[t].media_type = NoValue
              /\ tasks'[t].messages = <<>>
              /\ tasks'[t].frames = <<>>]_vars

\* a notification was answered 202 for a session that get_session returned
\* ready: the session had been notified before
C15_Witness ==
    \E t \in Tasks :
        /\ tasks[t].request.method = "notifications/initialized"
        /\ tasks[t].status_code = 202
        /\ tasks[t].session # None
        /\ tasks[t].session.ready_for_operation
        /\ IsReady(sessions, tasks[t].mcp_session_id)

-----------------------------------------------------------------------------
(* C16 - initialize always creates a session                               *)

\* C16: an initialize request with an acceptable Accept header succeeds
\* whatever Mcp-Session-Id header it carries: the step adds exactly one
\* session to the store, not ready, created and last active now, under an
\* id no stored session had; the reply is the 200 stream whose session
\* header is that new id, hence not the id sent when that one names a
\* stored session; every session stored before keeps its ready flag, its
\* created_at and its last_activity.
C16_InitializeAlwaysCreates ==
    [][\A t \in Tasks :
          ( /\ Dispatched(t)
            /\ Acceptable(tasks'[t])
            /\ tasks'[t].request.method = "initialize" ) =>
              \E new \in DOMAIN sessions' \ DOMAIN sessions :
                 /\ DOMAIN sessions' = DOMAIN sessions \cup {new}
                 /\ sessions'[new] = MCPSession(new, now)
                 /\ ~sessions'[new].ready_for_operation
                 /\ \A s \in DOMAIN sessions : sessions'[s] = sessions[s]
                 /\ tasks'[t].status_code = 200
                 /\ tasks'[t].pc = "stream"
                 /\ tasks'[t].session_header = new
                 /\ tasks'[t].mcp_session_id \in DOMAIN sessions =>
                       tasks'[t].session_header # tasks'[t].mcp_session_id
                 /\ Len(tasks'[t].messages) = 1
                 /\ tasks'[t].messages[1].error = None
                 /\ tasks'[t].messages[1].result # None]_vars

\* an initialize request carrying the id of a stored session was answered
\* with the id of a younger session, which is not ready; the session named
\* by the request has not been looked up since
C16_Witness ==
    \E t \in Tasks, s \in DOMAIN sessions, new \in DOMAIN sessions :
        /\ tasks[t].request.method = "initialize"
        /\ tasks[t].status_code = 200
        /\ tasks[t].mcp_session_id = s
        /\ tasks[t].session_header = new
        /\ new # s
        /\ ~sessions[new].ready_for_operation
        /\ sessions[s].last_activity < sessions[new].created_at

-----------------------------------------------------------------------------
(* C17 - tools/list and the registry                                       *)

\* listing names every tool of the registry exactly once, each under a name
\* that is not empty, and nothing else
ListsExactly(listing, registry) ==
    /\ \A n \in ToolNames(registry) :
          Cardinality({i \in DOMAIN listing : listing[i].name = n}) = 1
    /\ \A i \in DOMAIN listing :
          /\ listing[i].name \in ToolNames(registry)
          /\ listing[i].name # ""
          /\ listing[i].name # NoValue

\* C17: the registry is at every moment the one built at startup, five
\* tools under five names, whatever requests have been handled; and the
\* response to a tools/list request of a ready session, as built and as
\* framed in the stream, is a result whose tools name every registered tool
\* exactly once, each with a name that is not empty, and nothing else.
C17_ToolsListIsTheRegistry ==
    /\ tools = _register_tools
    /\ Cardinality(ToolNames(tools)) = 5
    /\ \A t \in Tasks :
          ( /\ tasks[t].request.method = "tools/list"
            /\ tasks[t].session # None
            /\ tasks[t].session.ready_for_operation ) =>
              /\ tasks[t].status_code = 200
              /\ Len(tasks[t].messages) = 1
              /\ tasks[t].messages[1].error = None
              /\ ListsExactly(tasks[t].messages[1].result.tools, tools)
              /\ Len(tasks[t].frames) >= 1 =>
                    /\ DOMAIN Payload(tasks[t]) = {"id", "result"}
                    /\ ListsExactly(Payload(tasks[t]).result.tools, tools)

\* the stream of a ready session's tools/list ended after a frame listing
\* five tools
C17_Witness ==
    \E t \in Tasks :
        /\ tasks[t].pc = "done"
        /\ tasks[t].request.method = "tools/list"
        /\ IsReady(sessions, tasks[t].mcp_session_id)
        /\ Len(Payload(tasks[t]).result.tools) = 5
        /\ \E i \in 1..5 : Payload(tasks[t]).result.tools[i].name = "delete_users"

-----------------------------------------------------------------------------
(* C18 - result or error, never both, never neither                        *)

\* an MCPResponse object, or its JSON dumped with the None members kept
OneOfResultAndError(m) ==
    /\ {"result", "error"} \subseteq DOMAIN m
    /\ (m.result = None) # (m.error = None)

\* the JSON of an MCPResponse dumped without its None members
OneOfResultAndErrorDumped(payload) ==
    ("result" \in DOMAIN payload) # ("error" \in DOMAIN payload)

\* C18: every JSON-RPC response the server builds has exactly one of result
\* and error set, on every path: the complete JSON bodies of the 406 and 400
\* replies, the responses handed to the stream, and every response framed
\* in a stream, the one handle_tools_call returns when awaited included.
C18_ResultXorError ==
    \A t \in Tasks :
        /\ HasJsonBody(tasks[t]) => OneOfResultAndError(tasks[t].content)
        /\ \A i \in DOMAIN tasks[t].messages :
              ~isawaitable(tasks[t].messages[i]) =>
                  OneOfResultAndError(tasks[t].messages[i])
        /\ \A i \in DOMAIN tasks[t].frames :
              tasks[t].frames[i] # DONE =>
                  OneOfResultAndErrorDumped(tasks[t].frames[i].payload)

\* a tool's execute raised and the awaited handle_tools_call was framed: the
\* response reports the failure in its result and has no error
C18_Witness ==
    \E t \in Tasks :
        /\ tasks[t].request.method = "tools/call"
        /\ tasks[t].execute_ended = "raise"
        /\ Len(tasks[t].frames) >= 1
        /\ "result" \in DOMAIN Payload(tasks[t])
        /\ "isError" \in DOMAIN Payload(tasks[t]).result
        /\ "error" \notin DOMAIN Payload(tasks[t])

-----------------------------------------------------------------------------
(* C19 - the session store under interleaved requests                      *)

\* C19: with POSTs of several sessions in flight at once, in every step
\* every stored session stays stored under its own id with its created_at
\* (get_session gives back the session created under that id), a handler
\* whose request carries the session id A leaves every other session's
\* record as it was, and a stored session's ready flag or last_activity
\* changes only in the step of a handler whose request carries its id.
C19_SessionsIsolated ==
    [][/\ \A s \in DOMAIN sessions :
             /\ s \in DOMAIN sessions'
             /\ get_session(sessions', s).session_id = s
             /\ sessions'[s].created_at = sessions[s].created_at
             /\ sessions'[s] # sessions[s] =>
                   \E t \in Tasks :
                      /\ Dispatched(t)
                      /\ tasks'[t].request.method # "initialize"
                      /\ tasks'[t].mcp_session_id = s
       /\ \A s \in DOMAIN sessions' : sessions'[s].session_id = s
       /\ \A t \in Tasks :
             Dispatched(t) =>
                 \A s \in DOMAIN sessions \ {tasks'[t].mcp_session_id} :
                     sessions'[s] = sessions[s]]_vars

\* while the tools/call of one session is suspended in its tool, a
\* notification of another session has been answered: that session is ready
\* and was last active after the first, both still stored under their ids
C19_Witness ==
    \E t \in Tasks, u \in Tasks :
        /\ tasks[t].pc = "await"
        /\ tasks[u].pc = "replied"
        /\ tasks[u].request.method = "notifications/initialized"
        /\ tasks[u].status_code = 202
        /\ tasks[t].mcp_session_id # tasks[u].mcp_session_id
        /\ {tasks[t].mcp_session_id, tasks[u].mcp_session_id}
              \subseteq DOMAIN sessions
        /\ sessions[tasks[u].mcp_session_id].last_activity >
              sessions[tasks[t].mcp_session_id].last_activity
        /\ ~tasks[u].session.ready_for_operation

-----------------------------------------------------------------------------
(* C20 - a suspended tool call holds nobody up                             *)

\* C20: in every state where the tools/call of one session is suspended in
\* its tool's execute, each connection of another session can take its next
\* step at once: a free connection can have any request of another session
\* dispatched (an initialize as long as session ids are left), an open
\* stream can yield its next frame, a complete reply can be delivered; and,
\* the dispatch being one step, such a request is answered while the first
\* call is still suspended.
C20_DispatchNeverWaits ==
    \A t \in Tasks : \A u \in Tasks \ {t} :
        tasks[t].pc = "await" =>
            /\ tasks[u].pc = "idle" =>
                  \A post \in ConcPosts :
                      ( /\ post[3] # tasks[t].mcp_session_id
                        /\ post[1].method = "initialize" =>
                              FreshIds(sessions) # {} ) =>
                          ENABLED handle_mcp_request(u, post[1], post[2], post[3])
            /\ tasks[u].pc = "stream" =>
                  ENABLED (StreamMessage(u) \/ StreamDone(u))
            /\ tasks[u].pc = "await" =>
                  ENABLED (ClientReturns(u) \/ ClientRaises(u))
            /\ tasks[u].pc \in {"replied", "done"} => ENABLED Close(u)

\* the tools/call of one session is suspended in its tool and the stream of
\* a tools/list of another session, dispatched later, has ended
C20_Witness ==
    \E t \in Tasks, u \in Tasks :
        /\ tasks[t].pc = "await"
        /\ tasks[t].request.method = "tools/call"
        /\ tasks[u].pc = "done"
        /\ tasks[u].request.method = "tools/list"
        /\ Len(tasks[u].frames) = 2
        /\ tasks[u].mcp_session_id # tasks[t].mcp_session_id
        /\ tasks[u].session.last_activity > tasks[t].session.last_activity

-----------------------------------------------------------------------------
(* C21 - the tools of src never let a failure out of execute               *)

\* the four tools whose execute is in the sources
SourceTools == {"add_user", "delete_users", "get_user_by_id", "search_users"}

\* the text execute returns in place of a failure, per tool
FailureTextStart(tool) ==
    CASE tool = "add_user" -> "Error while creating a new user: "
      [] tool = "delete_users" -> "Error while deleting user by id: "
      [] tool = "get_user_by_id" -> "Error while retrieving user by id: "
      [] tool = "search_users" -> "Error while searching users: "

\* C21: when the execute of add_user, delete_users, get_user_by_id or
\* search_users has ended, whatever the arguments (a map without the
\* required fields included) and whether the user-service call returned or
\* failed, it has returned and not raised, and the tools/call reply is the
\* 200 stream whose frame carries a result with one text item and neither
\* isError nor error; after a failure that text begins with the tool's own
\* words, "Error while creating a new user" for add_user, and the user
\* service was not called when the arguments were the failure.
C21_ExecuteNeverPropagates ==
    \A t \in Tasks :
        LET task == tasks[t]
            tool == ParamGet(task.request.params, "name")
            arguments == ArgumentsOf(task.request.params)
            text == Payload(task).result.content[1].text
            accepted == \/ arguments = "good"
                        \/ tool = "search_users" /\ arguments = "empty"
        IN  ( /\ task.request.method = "tools/call"
              /\ tool \in SourceTools
              /\ task.execute_ended # "no" ) =>
                /\ task.execute_ended = "return"
                /\ task.executed = 1
                /\ task.status_code = 200
                /\ Framed(task)
                /\ DOMAIN Payload(task) = {"id", "result"}
                /\ DOMAIN Payload(task).result = {"content"}
                /\ IsTextContent(Payload(task).result.content)
                /\ ~accepted =>
                      /\ task.client_calls = 0
                      /\ text.fmt = FailureTextStart(tool)
                /\ accepted =>
                      /\ task.client_calls = 1
                      /\ text.fmt \in {"", FailureTextStart(tool)}
                      /\ text.fmt = "" <=> text \in ClientTexts

\* add_user was called with arguments that lack the required fields and the
\* stream ended: the frame is a result whose text begins with the words of
\* add_user's except branch
C21_Witness ==
    \E t \in Tasks :
        /\ tasks[t].pc = "done"
        /\ ParamGet(tasks[t].request.params, "name") = "add_user"
        /\ ArgumentsOf(tasks[t].request.params) = "bad"
        /\ tasks[t].execute_ended = "return"
        /\ tasks[t].client_calls = 0
        /\ Payload(tasks[t]).result.content[1].text.fmt =
              "Error while creating a new user: "
        /\ "error" \notin DOMAIN Payload(tasks[t])

-----------------------------------------------------------------------------
(* C22 - the frames of a stream                                            *)

\* frame is the data frame of message: of a message at hand its JSON (a
\* response without its None members, a dict whole), of an awaitable the
\* response it resolved to, which answers the awaited request
IsFrameOf(frame, message) ==
    /\ frame # DONE
    /\ frame.prefix = "data: "
    /\ IF isawaitable(message)
       THEN /\ frame.payload.id = message.request.id
            /\ OneOfResultAndErrorDumped(frame.payload)
       ELSE IF {"id", "result", "error"} = DOMAIN message
       THEN /\ frame.payload.id = message.id
            /\ ("result" \in DOMAIN frame.payload) <=> message.result # None
            /\ ("error" \in DOMAIN frame.payload) <=> message.error # None
            /\ \A k \in DOMAIN frame.payload : frame.payload[k] = message[k]
       ELSE frame.payload = message

\* C22: for every list of messages, the empty one and those holding
\* awaitables that resolve included, the frames emitted so far are at every
\* moment the data frames of a prefix of the list, one per message and in
\* the order of the list, followed by [DONE] exactly when the stream has
\* ended, which it does only after the frame of the last message; while an
\* awaitable is pending the frames stop right before it; and after [DONE]
\* the stream takes no step more.
C22_FramesInOrderThenDone ==
    LET task == tasks[1]
        n == Len(task.messages)
        emitted == Len(task.frames)
    IN  /\ emitted <= n + 1
        /\ \A i \in 1..emitted :
              IF i <= n
              THEN IsFrameOf(task.frames[i], task.messages[i])
              ELSE task.frames[i] = DONE
        /\ task.pc \in {"stream", "await", "done"}
        /\ task.pc = "done" <=> emitted = n + 1
        /\ task.pc = "await" =>
              /\ emitted < n
              /\ isawaitable(task.messages[emitted + 1])
        /\ task.pc = "done" =>
              ~ENABLED (StreamMessage(1) \/ ClientReturns(1) \/
                        ClientRaises(1) \/ StreamDone(1))

\* the stream of a list of three messages, the second an awaitable that
\* executed a tool and called the user service, the others of two different
\* kinds, has ended with four frames
C22_Witness ==
    /\ tasks[1].pc = "done"
    /\ Len(tasks[1].messages) = 3
    /\ Len(tasks[1].frames) = 4
    /\ ~isawaitable(tasks[1].messages[1])
    /\ isawaitable(tasks[1].messages[2])
    /\ ~isawaitable(tasks[1].messages[3])
    /\ tasks[1].messages[1] # tasks[1].messages[3]
    /\ tasks[1].client_calls = 1
    /\ tasks[1].frames[4] = DONE

\* the stream of the empty list has ended with the [DONE] frame alone
C22_WitnessEmpty ==
    /\ tasks[1].pc = "done"
    /\ tasks[1].messages = <<>>
    /\ tasks[1].frames = <<DONE>>
    /\ tasks[1].media_type = "text/event-stream"

-----------------------------------------------------------------------------
(* C23 - get_session                                                       *)

\* the step is a handler whose only access to the store is get_session:
\* the Accept header passes, the method is neither initialize nor
\* notifications/initialized, and the session header is not empty
LooksUpOnly(t) ==
    /\ Dispatched(t)
    /\ Acceptable(tasks'[t])
    /\ tasks'[t].request.method \notin {"initialize", "notifications/initialized"}
    /\ Truthy(tasks'[t].mcp_session_id)

\* C23: get_session(id) with id in the store returns the session stored
\* under id and changes only that session's last_activity, to the clock's
\* value, which is not smaller than its created_at nor than its previous
\* last_activity; its ready flag, its created_at, every other session and
\* the set of stored ids stay as they were.  With id absent it returns None
\* without raising (the handler goes on to its 400 reply) and the store is
\* left as it was.
C23_GetSession ==
    [][\A t \in Tasks :
          LooksUpOnly(t) =>
              LET id == tasks'[t].mcp_session_id
                  returned == tasks'[t].session
              IN  IF id \in DOMAIN sessions
                  THEN /\ returned = sessions'[id]
                       /\ returned.session_id = id
                       /\ DOMAIN sessions' = DOMAIN sessions
                       /\ sessions'[id].last_activity = now
                       /\ sessions'[id].last_activity >= sessions[id].created_at
                       /\ sessions'[id].last_activity >= sessions[id].last_activity
                       /\ sessions'[id].ready_for_operation =
                             sessions[id].ready_for_operation
                       /\ sessions'[id].created_at = sessions[id].created_at
                       /\ \A other \in DOMAIN sessions \ {id} :
                             sessions'[other] = sessions[other]
                  ELSE /\ returned = None
                       /\ sessions' = sessions
                       /\ tasks'[t].pc = "replied"
                       /\ tasks'[t].status_code = 400]_vars

\* a tools/list request found its session, whose last_activity is now
\* later than its created_at, while another stored session has not been
\* active since an earlier time
C23_Witness ==
    \E t \in Tasks, id \in DOMAIN sessions, other \in DOMAIN sessions :
        /\ tasks[t].request.method = "tools/list"
        /\ tasks[t].mcp_session_id = id
        /\ tasks[t].session = sessions[id]
        /\ sessions[id].last_activity > sessions[id].created_at
        /\ other # id
        /\ sessions[other].last_activity < sessions[id].last_activity

-----------------------------------------------------------------------------
(* C24 - a tool is executed at most once per request                       *)

\* C24: a request never has execute invoked more than once nor the user
\* service called more than once, not even after execute or that call
\* failed; an execute was invoked only for a tools/call request whose
\* session get_session returned ready and whose params.name is a registered
\* tool, and only in the stream that follows the readiness check; and the
\* stream of such a request, once ended, has invoked execute exactly once.
C24_ExecutedAtMostOnce ==
    \A t \in Tasks :
        LET task == tasks[t]
            runnable == /\ task.request.method = "tools/call"
                        /\ task.session # None
                        /\ task.session.ready_for_operation
                        /\ ParamGet(task.request.params, "name")
                              \in ToolNames(tools)
        IN  /\ task.executed \in {0, 1}
            /\ task.client_calls <= task.executed
            /\ task.execute_ended # "no" => task.executed = 1
            /\ task.executed = 1 =>
                  /\ runnable
                  /\ task.status_code = 200
                  /\ task.pc \in {"await", "stream", "done"}
            /\ task.pc = "await" => task.executed = 1
            /\ (runnable /\ task.pc = "done") =>
                  /\ task.executed = 1
                  /\ task.execute_ended # "no"

\* the user-service call of a tool failed, execute returned its failure
\* text, and the stream ended with that one execution
C24_Witness ==
    \E t \in Tasks :
        /\ tasks[t].pc = "done"
        /\ tasks[t].request.method = "tools/call"
        /\ tasks[t].executed = 1
        /\ tasks[t].client_calls = 1
        /\ tasks[t].execute_ended = "return"
        /\ Payload(tasks[t]).result.content[1].text.arg \in ClientErrors
        /\ tasks[t].session.ready_for_operation

-----------------------------------------------------------------------------
(* C25 - the client's handshake                                            *)

\* C25: whenever connect() has returned without raising, the requests it
\* sent are an initialize and then a notifications/initialized, in that
\* order, the initialize without a session-id header, and the client's
\* session_id names a session that is in the server's store and ready; at
\* no moment has a connect() sent a notification before its initialize or
\* an initialize with a session-id header.  This holds as well for a
\* connect() called on a client that already held a session id, while
\* other clients create and use sessions of their own.
C25_ClientHandshake ==
    /\ \A i \in DOMAIN client.log :
          /\ client.log[i].method = "initialize" =>
                /\ i = 1
                /\ client.log[i].header = NoValue
          /\ client.log[i].method = "notifications/initialized" => i = 2
    /\ client.pc = "connected" =>
          /\ Len(client.log) = 2
          /\ client.log[1].method = "initialize"
          /\ client.log[2].method = "notifications/initialized"
          /\ Truthy(client.session_id)
          /\ client.session_id \in DOMAIN sessions
          /\ sessions[client.session_id].session_id = client.session_id
          /\ sessions[client.session_id].ready_for_operation

\* connect() has returned for the second time, on a client that held a
\* session id when it was called: the client still has that id, its session
\* is ready, and the session the second initialize created is not
C25_Witness ==
    /\ client.pc = "connected"
    /\ client.connects = 2
    /\ Truthy(client.held)
    /\ client.session_id = client.held
    /\ IsReady(sessions, client.session_id)
    /\ \E other \in DOMAIN sessions :
          /\ other # client.session_id
          /\ ~sessions[other].ready_for_operation

====
